---- MODULE Spec2Model ----
(***************************************************************************)
(* Recap result cache and job ledger of box-scoryteller.                   *)
(*                                                                         *)
(*   src/lib/cache.ts                 recaps table, jobs table             *)
(*   src/routes/api/recap/+server.ts  POST /api/recap, processRecapJob     *)
(*   routes/api/jobs/[jobId]          GET / DELETE /api/jobs/{jobId}       *)
(*   lib/job-client                   generateRecap, pollForResult         *)
(*                                                                         *)
(* The server is one Node process.  better-sqlite3 is synchronous, so the  *)
(* code between two awaits runs as one step: a POST handler after its      *)
(* request.json() (including the synchronous prefix of the processRecapJob *)
(* it dispatches), and each segment of processRecapJob between its awaits. *)
(* Time is counted in minutes.                                             *)
(***************************************************************************)
EXTENDS Integers, Sequences, FiniteSets, Bags, TLC

\* ---------------------------------------------------------------- bounds
\* the last instant of the clock
MaxTime == 6
\* processRecapJob invocations running at the same time
MaxRuns == 2
\* concurrent generateRecap callers
NumCallers == 2
\* generation calls per input are counted up to this many
MaxCalls == 2
\* overlapping parseBoxScoreCached invocations
NumPipelineCalls == 2
\* keys of a request body's box score object
MaxKeys == 3

\* ------------------------------------------------------ program constants
\* 2 * 60 * 1000 ms, in minutes
JOB_TIMEOUT_MS == 2
\* resetStaleJobs(5) at module load
STALE_MINUTES == 5
\* cleanupOldJobs(60) at module load
TTL_MINUTES == 60
\* pollForResult default timeout = 120000 ms, in minutes
POLL_TIMEOUT == 2
\* radix of the digest model below
HashBase == 3

\* ------------------------------------------------------------ value sets
Callers == 1..NumCallers

\* The instants at which the clock is read.  Between them lie gaps of 1, 2,
\* 3, 5 and 6 minutes, so that every comparison of an age with
\* JOB_TIMEOUT_MS and STALE_MINUTES goes both ways.
Times == {0, 1, 3, MaxTime}

\* A box score is a JSON object; what the fingerprint can see of it is the
\* order in which its keys are serialised.  Both values below are the same
\* object {1: .., 2: ..}, built with the keys inserted in either order.
BoxScores == {<<1, 2>>, <<2, 1>>}

\* request bodies: { boxScore } present or missing
Bodies == {[present |-> TRUE, boxScore |-> b] : b \in BoxScores}
          \cup {[present |-> FALSE, boxScore |-> <<>>]}

\* what the generation call can return (it is not deterministic)
Recaps == {"recapA", "recapB"}

\* message of the exception a failing step raises
ErrMsg == "generation failed"

\* JavaScript null: of a row or response, of a string, of a job id
Null == [null |-> TRUE]
null == "null"
NoJobId == <<"null", 0>>

\* JSON.stringify of an object writes the keys in insertion order
JsonStringify(obj) == [i \in 1..Len(obj) |-> obj[i]]

\* sha256(..).digest('hex').slice(0, 16): a digest, modelled as an
\* injective positional code of the serialised text
RECURSIVE hashContent(_)
hashContent(content) ==
  IF content = <<>> THEN 0
  ELSE hashContent(SubSeq(content, 1, Len(content) - 1)) * HashBase
       + content[Len(content)]

\* mutation of generateJobId: the hash is left out of the id
generateJobId_fixed(inputHash) == <<"recap", 0>>

\* `recap_${hash}`
generateJobId(inputHash) == <<"recap", inputHash>>

Hashes == {hashContent(JsonStringify(b)) : b \in BoxScores}
JobIds == {generateJobId(h) : h \in Hashes}

\* ------------------------------------------------------------- variables
VARIABLES
  up,       \* the server process is running
  now,      \* wall clock, minutes
  jobs,     \* jobs table: id -> row
  recaps,   \* recaps table: input_hash -> row
  runs,     \* the running processRecapJob invocations, a bag
  genCalls, \* history: generation calls made per input hash, up to MaxCalls
  callers,  \* generateRecap / pollForResult invocations of the clients
  parsed_boxscores, \* parsed_boxscores table: input_hash -> row
  pipeline,   \* parseBoxScoreCached invocations
  parseCalls, \* history: b.ParseBoxScore calls made per raw text
  keyed,      \* two request bodies and the fingerprints computed for them
  aborted     \* callers that have raised the abort signal they hold

vars == <<up, now, jobs, recaps, runs, genCalls, callers,
          parsed_boxscores, pipeline, parseCalls, keyed, aborted>>

\* the recap server, and what lies beside it
server == <<up, now, jobs, recaps, runs, genCalls, callers>>
others == <<parsed_boxscores, pipeline, parseCalls, keyed, aborted>>

\* ================================================== recaps table (cache.ts)
\* mutation of storeRecap: INSERT OR IGNORE, the first recap is kept
storeRecap_ignore(rc, inputHash, recap, model) ==
  IF inputHash \in DOMAIN rc THEN rc
  ELSE [h \in DOMAIN rc \cup {inputHash} |->
          IF h = inputHash
          THEN [recap_json |-> <<"json", recap>>, model |-> model]
          ELSE rc[h]]

\* INSERT OR REPLACE INTO recaps (input_hash, recap_json, model)
storeRecap(rc, inputHash, recap, model) ==
  [h \in DOMAIN rc \cup {inputHash} |->
     IF h = inputHash THEN [recap_json |-> <<"json", recap>>, model |-> model]
     ELSE rc[h]]

\* mutation of getRecap: the lookup never finds the row
getRecap_miss(rc, inputHash) == null

\* row ? JSON.parse(row.recap_json) : null
getRecap(rc, inputHash) ==
  IF inputHash \in DOMAIN rc THEN rc[inputHash].recap_json[2] ELSE null

\* ==================================================== jobs table (cache.ts)
getJob(js, jobId) == IF jobId \in DOMAIN js THEN js[jobId] ELSE Null

\* WHERE input_hash = ? AND job_type = ? AND status IN ('pending','processing')
\* ORDER BY created_at DESC LIMIT 1.  Every row is inserted with
\* id = 'recap_' + input_hash, so at most one row matches and created_at
\* never decides; the column is left out of the rows.
getJobByInputHash(js, inputHash, jobType) ==
  LET match == {id \in DOMAIN js :
                  /\ js[id].inputHash = inputHash
                  /\ js[id].jobType = jobType
                  /\ js[id].status \in {"pending", "processing"}}
  IN IF match = {} THEN Null ELSE js[CHOOSE id \in match : TRUE]

\* DELETE FROM jobs WHERE id = ?
deleteJob(js, jobId) == [id \in DOMAIN js \ {jobId} |-> js[id]]

\* mutation of insertJob: the row is inserted as 'processing' / 'validating'
insertJob_processing(js, t, jobId, inputHash, jobType) ==
  IF jobId \in DOMAIN js
  THEN [jobs |-> js, threw |-> TRUE]
  ELSE LET row == [id |-> jobId, inputHash |-> inputHash, jobType |-> jobType,
                   status |-> "processing", phase |-> "validating",
                   phaseMessage |-> "Job queued",
                   result |-> null, error |-> null,
                   updatedAt |-> t]
       IN [jobs |-> [id \in DOMAIN js \cup {jobId} |->
                       IF id = jobId THEN row ELSE js[id]],
           threw |-> FALSE]

\* INSERT INTO jobs (id, ..) VALUES (?, .., 'pending', 'queued', 'Job queued'):
\* id is the PRIMARY KEY, the statement throws when the id is taken
insertJob(js, t, jobId, inputHash, jobType) ==
  IF jobId \in DOMAIN js
  THEN [jobs |-> js, threw |-> TRUE]
  ELSE LET row == [id |-> jobId, inputHash |-> inputHash, jobType |-> jobType,
                   status |-> "pending", phase |-> "queued",
                   phaseMessage |-> "Job queued",
                   result |-> null, error |-> null,
                   updatedAt |-> t]
       IN [jobs |-> [id \in DOMAIN js \cup {jobId} |->
                       IF id = jobId THEN row ELSE js[id]],
           threw |-> FALSE]

\* mutation of createOrGetJob: INSERT OR REPLACE without the look-up
createOrGetJob_replace(js, t, jobId, inputHash, jobType) ==
  LET ins == insertJob(deleteJob(js, jobId), t, jobId, inputHash, jobType)
  IN [jobs |-> ins.jobs, job |-> getJob(ins.jobs, jobId), threw |-> FALSE]

\* mutation of createOrGetJob: the INSERT without the look-up
createOrGetJob_blindInsert(js, t, jobId, inputHash, jobType) ==
  LET ins == insertJob(js, t, jobId, inputHash, jobType)
  IN [jobs |-> ins.jobs, job |-> getJob(ins.jobs, jobId), threw |-> ins.threw]

\* getJob(jobId); if absent INSERT, then getJob(jobId) again
createOrGetJob(js, t, jobId, inputHash, jobType) ==
  IF getJob(js, jobId) # Null
  THEN [jobs |-> js, job |-> getJob(js, jobId), threw |-> FALSE]
  ELSE LET ins == insertJob(js, t, jobId, inputHash, jobType)
       IN [jobs |-> ins.jobs, job |-> getJob(ins.jobs, jobId),
           threw |-> ins.threw]

StatusOfPhase(phase) ==
  IF phase = "queued" THEN "pending"
  ELSE IF phase = "complete" THEN "completed"
  ELSE IF phase = "error" THEN "failed"
  ELSE "processing"

\* mutation of updateJobPhase: the UPDATE leaves the status column out
updateJobPhase_phaseOnly(js, t, jobId, phase, message) ==
  [id \in DOMAIN js |->
     IF id = jobId
     THEN [js[id] EXCEPT !.phase = phase, !.phaseMessage = message,
                         !.updatedAt = t]
     ELSE js[id]]

\* UPDATE jobs SET phase, phase_message, status, updated_at WHERE id = ?
updateJobPhase(js, t, jobId, phase, message) ==
  [id \in DOMAIN js |->
     IF id = jobId
     THEN [js[id] EXCEPT !.phase = phase, !.phaseMessage = message,
                         !.status = StatusOfPhase(phase), !.updatedAt = t]
     ELSE js[id]]

completeJob(js, t, jobId, result) ==
  [id \in DOMAIN js |->
     IF id = jobId
     THEN [js[id] EXCEPT !.status = "completed", !.phase = "complete",
                         !.phaseMessage = "Job completed successfully",
                         !.result = result, !.updatedAt = t]
     ELSE js[id]]

\* mutation of failJob: the UPDATE records the message but not the status
failJob_messageOnly(js, t, jobId, error) ==
  [id \in DOMAIN js |->
     IF id = jobId
     THEN [js[id] EXCEPT !.phaseMessage = error, !.error = error,
                         !.updatedAt = t]
     ELSE js[id]]

failJob(js, t, jobId, error) ==
  [id \in DOMAIN js |->
     IF id = jobId
     THEN [js[id] EXCEPT !.status = "failed", !.phase = "error",
                         !.phaseMessage = error, !.error = error,
                         !.updatedAt = t]
     ELSE js[id]]

\* mutation of cleanupOldJobs: the DELETE without its status condition
cleanupOldJobs_anyStatus(js, t, ttlMinutes) ==
  [id \in {i \in DOMAIN js : ~ (js[i].updatedAt < t - ttlMinutes)} |-> js[id]]

\* DELETE WHERE status IN ('completed','failed') AND updated_at < now - ttl
cleanupOldJobs(js, t, ttlMinutes) ==
  [id \in {i \in DOMAIN js :
             ~ (/\ js[i].status \in {"completed", "failed"}
                /\ js[i].updatedAt < t - ttlMinutes)} |-> js[id]]

\* UPDATE .. WHERE status = 'processing' AND updated_at < now - staleMinutes
resetStaleJobs(js, t, staleMinutes) ==
  [id \in DOMAIN js |->
     IF js[id].status = "processing" /\ js[id].updatedAt < t - staleMinutes
     THEN [js[id] EXCEPT !.status = "failed", !.phase = "error",
                         !.phaseMessage = "Job timed out or server restarted",
                         !.error = "Job was interrupted", !.updatedAt = t]
     ELSE js[id]]

\* ============================================ POST /api/recap (+server.ts)
\* mutation of isJobStale: the comparison with the timeout is turned round
isJobStale_flipped(job, t) ==
  IF job.status # "processing" /\ job.status # "pending" THEN FALSE
  ELSE (t - job.updatedAt) < JOB_TIMEOUT_MS

isJobStale(job, t) ==
  IF job.status # "processing" /\ job.status # "pending" THEN FALSE
  ELSE (t - job.updatedAt) > JOB_TIMEOUT_MS

JobResp(path, jobId, job, recap) ==
  [code |-> 200, path |-> path, jobId |-> jobId, status |-> job.status,
   phase |-> job.phase, phaseMessage |-> job.phaseMessage, recap |-> recap,
   error |-> null]

\* The synchronous part of processRecapJob, up to its first await:
\* updateJobPhase(jobId, 'validating') inside the try; fault = the statement
\* throws and the catch runs failJob.
StartRun(js, t, jobId, fault) ==
  IF fault THEN failJob(js, t, jobId, ErrMsg)
  ELSE updateJobPhase(js, t, jobId, "validating", "Validating box score data...")

\* an invocation processRecapJob(jobId, inputHash, boxScore) suspended at
\* an await: pc = "delay" at the 100 ms timer, "llm" at the generation call
Run(boxScore, pc) ==
  [jobId |-> generateJobId(hashContent(JsonStringify(boxScore))),
   inputHash |-> hashContent(JsonStringify(boxScore)),
   boxScore |-> boxScore, pc |-> pc]

RunsAt(pc) == {Run(b, pc) : b \in BoxScores}

\* the invocation moves on or returns
Resume(rs, r, pc) ==
  (rs (-) SetToBag({r}))
    (+) (IF pc = "done" THEN EmptyBag
         ELSE SetToBag({[r EXCEPT !.pc = pc]}))

\* processRecapJob is called and suspends at its first await; an invocation
\* whose first statement threw has already returned
Dispatch(rs, jobId, inputHash, boxScore, fault) ==
  IF fault THEN rs
  ELSE rs (+) SetToBag({[jobId |-> jobId, inputHash |-> inputHash,
                         boxScore |-> boxScore, pc |-> "delay"]})

\* The handler from line 58 to its return: the tables it leaves, the runs it
\* leaves, whether it called processRecapJob and the response it sends.
PostOutcome(body, fault) ==
  IF ~ body.present
  THEN [jobs |-> jobs, runs |-> runs, dispatched |-> FALSE,
        resp |-> [code |-> 400, path |-> "bad_request", jobId |-> NoJobId,
                  status |-> null, phase |-> null, phaseMessage |-> null,
                  recap |-> null, error |-> null]]
  ELSE
  LET boxScore == body.boxScore
      inputHash == hashContent(JsonStringify(boxScore))
      jobId == generateJobId(inputHash)
      cachedRecap == getRecap(recaps, inputHash)
      existingJob == getJobByInputHash(jobs, inputHash, "recap")
      \* step 2: a stale active job is deleted
      jobs2 == IF existingJob # Null /\ isJobStale(existingJob, now)
               THEN deleteJob(jobs, existingJob.id) ELSE jobs
      jobById == getJob(jobs2, jobId)
      \* step 3: a stale job found by id is deleted
      jobs3 == IF jobById # Null /\ isJobStale(jobById, now)
               THEN deleteJob(jobs2, jobById.id) ELSE jobs2
      created == createOrGetJob(jobs3, now, jobId, inputHash, "recap")
      job == created.job
      dispatch == job.status = "pending"
  IN
  IF cachedRecap # null
  THEN [jobs |-> jobs, runs |-> runs, dispatched |-> FALSE,
        resp |-> [code |-> 200, path |-> "cache", jobId |-> jobId,
                  status |-> "completed", phase |-> "complete",
                  phaseMessage |-> "Loaded from cache", recap |-> cachedRecap,
                  error |-> null]]
  ELSE IF existingJob # Null /\ ~ isJobStale(existingJob, now)
          /\ existingJob.status \in {"processing", "pending"}
  THEN [jobs |-> jobs, runs |-> runs, dispatched |-> FALSE,
        resp |-> JobResp("active", existingJob.id, existingJob, null)]
  ELSE IF existingJob # Null /\ ~ isJobStale(existingJob, now)
          /\ existingJob.status = "completed" /\ existingJob.result # null
  THEN [jobs |-> jobs, runs |-> runs, dispatched |-> FALSE,
        resp |-> JobResp("active_completed", existingJob.id, existingJob,
                         existingJob.result)]
  ELSE IF jobById # Null /\ ~ isJobStale(jobById, now)
          /\ jobById.status = "completed" /\ jobById.result # null
  THEN [jobs |-> jobs2, runs |-> runs, dispatched |-> FALSE,
        resp |-> JobResp("byid_completed", jobId, jobById, jobById.result)]
  ELSE IF jobById # Null /\ ~ isJobStale(jobById, now)
          /\ jobById.status \in {"processing", "pending"}
  THEN [jobs |-> jobs2, runs |-> runs, dispatched |-> FALSE,
        resp |-> JobResp("byid_active", jobId, jobById, null)]
  ELSE IF created.threw
  THEN [jobs |-> jobs3, runs |-> runs, dispatched |-> FALSE,
        resp |-> [code |-> 500, path |-> "error", jobId |-> NoJobId,
                  status |-> null, phase |-> null, phaseMessage |-> null,
                  recap |-> null, error |-> "Failed to create recap job"]]
  ELSE IF dispatch
  THEN [jobs |-> StartRun(created.jobs, now, jobId, fault),
        runs |-> Dispatch(runs, jobId, inputHash, boxScore, fault),
        dispatched |-> TRUE,
        resp |-> JobResp("created", jobId, job, null)]
  ELSE [jobs |-> created.jobs, runs |-> runs, dispatched |-> FALSE,
        resp |-> JobResp("existing", jobId, job, null)]

NoResponse ==
  [code |-> 0, path |-> "none", jobId |-> NoJobId, status |-> null,
   phase |-> null, phaseMessage |-> null, recap |-> null, error |-> null]

IdleCaller ==
  [pc |-> "idle", jobId |-> NoJobId, startTime |-> 0, phase |-> null,
   recap |-> null]

\* ===================================== parsed_boxscores table (cache.ts)
\* raw box score texts, as strings of characters
RawTexts == {<<1>>, <<2>>}

\* what b.ParseBoxScore can return (it is not deterministic)
BoxScoreResults == {"boxScoreA", "boxScoreB"}

PipelineCalls == 1..NumPipelineCalls

\* mutation of storeParsedBoxScore: INSERT OR IGNORE keeps the earlier row
storeParsedBoxScore_ignore(tbl, inputHash, boxScore, model) ==
  IF inputHash \in DOMAIN tbl THEN tbl
  ELSE [h \in DOMAIN tbl \cup {inputHash} |->
          IF h = inputHash
          THEN [boxscore_json |-> <<"json", boxScore>>, model |-> model]
          ELSE tbl[h]]

\* INSERT OR REPLACE INTO parsed_boxscores (input_hash, boxscore_json, model)
storeParsedBoxScore(tbl, inputHash, boxScore, model) ==
  [h \in DOMAIN tbl \cup {inputHash} |->
     IF h = inputHash
     THEN [boxscore_json |-> <<"json", boxScore>>, model |-> model]
     ELSE tbl[h]]

\* row ? JSON.parse(row.boxscore_json) : null
getParsedBoxScore(tbl, inputHash) ==
  IF inputHash \in DOMAIN tbl THEN tbl[inputHash].boxscore_json[2] ELSE null

\* ================================ parseBoxScoreCached (cached-pipeline.ts)
IdleCall ==
  [pc |-> "idle", rawText |-> <<>>, forceRefresh |-> FALSE, result |-> null]

InitPipeline ==
  /\ parsed_boxscores = <<>>
  /\ pipeline = [k \in PipelineCalls |-> IdleCall]
  /\ parseCalls = [t \in RawTexts |-> 0]

\* parseBoxScoreCached(rawText, {forceRefresh}) up to its return from the
\* cache or to the await of b.ParseBoxScore(rawText)
ParseBoxScoreCached(k, rawText, forceRefresh) ==
  /\ pipeline[k].pc = "idle"
  /\ LET inputHash == hashContent(rawText)
         cached == IF forceRefresh THEN null
                   ELSE getParsedBoxScore(parsed_boxscores, inputHash)
     IN IF cached # null
        THEN /\ pipeline' = [pipeline EXCEPT ![k] =
                   [pc |-> "returned", rawText |-> rawText,
                    forceRefresh |-> forceRefresh, result |-> cached]]
             /\ parseCalls' = parseCalls
        ELSE /\ pipeline' = [pipeline EXCEPT ![k] =
                   [pc |-> "llm", rawText |-> rawText,
                    forceRefresh |-> forceRefresh, result |-> null]]
             /\ parseCalls' = [parseCalls EXCEPT ![rawText] =
                                 IF @ < MaxCalls THEN @ + 1 ELSE @]
  /\ UNCHANGED <<parsed_boxscores, keyed>>
  /\ UNCHANGED server
  /\ UNCHANGED aborted

\* b.ParseBoxScore resolves: storeParsedBoxScore(inputHash, result,
\* options.model), return result
ParseResolve(k, result) ==
  /\ pipeline[k].pc = "llm"
  /\ parsed_boxscores' =
       storeParsedBoxScore(parsed_boxscores, hashContent(pipeline[k].rawText),
                           result, null)
  /\ pipeline' = [pipeline EXCEPT ![k].pc = "returned", ![k].result = result]
  /\ UNCHANGED <<parseCalls, keyed>>
  /\ UNCHANGED server
  /\ UNCHANGED aborted

\* b.ParseBoxScore rejects: nothing is stored, the promise rejects
ParseReject(k) ==
  /\ pipeline[k].pc = "llm"
  /\ pipeline' = [pipeline EXCEPT ![k].pc = "threw"]
  /\ UNCHANGED <<parsed_boxscores, parseCalls, keyed>>
  /\ UNCHANGED server
  /\ UNCHANGED aborted

\* the caller has taken the settled promise
ParseSettled(k) ==
  /\ pipeline[k].pc \in {"returned", "threw"}
  /\ pipeline' = [pipeline EXCEPT ![k] = IdleCall]
  /\ UNCHANGED <<parsed_boxscores, parseCalls, keyed>>
  /\ UNCHANGED server
  /\ UNCHANGED aborted

\* ================================== fingerprint of a request body's object
\* A box score object with at most MaxKeys keys, written as the sequence of
\* its keys in insertion order: key k carries the same value wherever it
\* occurs, so two sequences with the same keys are the same object.
Keys == 1..MaxKeys

Objects ==
  {o \in UNION {[1..m -> Keys] : m \in 0..MaxKeys} :
     \A i, j \in 1..Len(o) : o[i] = o[j] => i = j}

NotKeyed == [a |-> <<>>, b |-> <<>>, hashes |-> <<>>]

\* inputHash = hashContent(JSON.stringify(boxScore)) for either body
Fingerprint ==
  /\ keyed.hashes = <<>>
  /\ keyed' = [keyed EXCEPT !.hashes =
                 <<hashContent(JsonStringify(keyed.a)),
                   hashContent(JsonStringify(keyed.b))>>]
  /\ UNCHANGED <<parsed_boxscores, pipeline, parseCalls>>
  /\ UNCHANGED server
  /\ UNCHANGED aborted

InitServer ==
  /\ up = TRUE
  /\ now = 0
  /\ jobs = <<>>
  /\ recaps = <<>>
  /\ runs = EmptyBag
  /\ genCalls = [h \in Hashes |-> 0]
  /\ callers = [c \in Callers |-> IdleCaller]
  /\ aborted = {}

Init ==
  /\ InitServer
  /\ InitPipeline
  /\ keyed = NotKeyed

\* two bodies arrive
InitKeying ==
  /\ InitServer
  /\ InitPipeline
  /\ keyed \in {[a |-> x, b |-> y, hashes |-> <<>>] :
                  x \in Objects, y \in Objects}

\* the server's side of one POST /api/recap
HandlePost(body, fault) ==
  /\ up
  /\ LET o == PostOutcome(body, fault)
     IN /\ BagCardinality(o.runs) <= MaxRuns
        /\ jobs' = o.jobs
        /\ runs' = o.runs
  /\ UNCHANGED <<up, now, recaps, genCalls>>
  /\ UNCHANGED others

\* a POST of any client
Post(body, fault) ==
  /\ HandlePost(body, fault)
  /\ UNCHANGED callers

\* generateRecap (job-client): POST, then return the recap of a completed
\* response or start pollForResult on the returned jobId.
Submit(c, body, fault) ==
  /\ callers[c].pc = "idle"
  /\ HandlePost(body, fault)
  /\ LET resp == PostOutcome(body, fault).resp
     IN callers' = [callers EXCEPT ![c] =
          IF resp.code # 200
          THEN [IdleCaller EXCEPT !.pc = "threw_submit"]
          ELSE IF resp.status = "completed" /\ resp.recap # null
          THEN [IdleCaller EXCEPT !.pc = "returned", !.jobId = resp.jobId,
                                  !.recap = resp.recap]
          ELSE [IdleCaller EXCEPT !.pc = "polling", !.jobId = resp.jobId,
                                  !.startTime = now]]

\* ================================= GET /api/jobs/{jobId} (jobs/[jobId])
GetOutcome(jobId) ==
  LET job == getJob(jobs, jobId)
  IN IF job = Null
     THEN [code |-> 404, path |-> "get", jobId |-> jobId, status |-> null,
           phase |-> null, phaseMessage |-> null, recap |-> null,
           error |-> null]
     ELSE [code |-> 200, path |-> "get", jobId |-> job.id,
           status |-> job.status, phase |-> job.phase,
           phaseMessage |-> job.phaseMessage,
           recap |-> job.result, error |-> job.error]

\* mutation of pollForResult: giving up on the timeout deletes the job
Poll_timeoutCancels(c) ==
  /\ up
  /\ callers[c].pc = "polling"
  /\ LET me == callers[c]
         r == GetOutcome(me.jobId)
     IN IF now - me.startTime > POLL_TIMEOUT
        THEN /\ callers' = [callers EXCEPT ![c].pc = "threw_timeout"]
             /\ jobs' = deleteJob(jobs, me.jobId)
        ELSE /\ callers' = [callers EXCEPT ![c] =
                  IF r.code = 404
                  THEN [me EXCEPT !.pc = "threw_notfound"]
                  ELSE IF r.status = "completed"
                  THEN [me EXCEPT !.pc = "returned", !.phase = r.phase,
                                  !.recap = r.recap]
                  ELSE IF r.status = "failed"
                  THEN [me EXCEPT !.pc = "threw_failed", !.phase = r.phase]
                  ELSE [me EXCEPT !.phase = r.phase]]
             /\ jobs' = jobs
  /\ UNCHANGED <<up, now, recaps, runs, genCalls>>
  /\ UNCHANGED others

\* mutation of pollForResult: the loop without its timeout check
Poll_noTimeout(c) ==
  /\ up
  /\ callers[c].pc = "polling"
  /\ LET me == callers[c]
         r == GetOutcome(me.jobId)
     IN callers' = [callers EXCEPT ![c] =
               IF r.code = 404
               THEN [me EXCEPT !.pc = "threw_notfound"]
               ELSE IF r.status = "completed"
               THEN [me EXCEPT !.pc = "returned", !.phase = r.phase,
                               !.recap = r.recap]
               ELSE IF r.status = "failed"
               THEN [me EXCEPT !.pc = "threw_failed", !.phase = r.phase]
               ELSE [me EXCEPT !.phase = r.phase]]
  /\ UNCHANGED <<up, now, jobs, recaps, runs, genCalls>>
  /\ UNCHANGED others

\* One iteration of the pollForResult loop: timeout check, fetch, decide.
Poll(c) ==
  /\ up
  /\ callers[c].pc = "polling"
  /\ LET me == callers[c]
         r == GetOutcome(me.jobId)
     IN IF now - me.startTime > POLL_TIMEOUT
        THEN callers' = [callers EXCEPT ![c].pc = "threw_timeout"]
        ELSE callers' = [callers EXCEPT ![c] =
               IF r.code = 404
               THEN [me EXCEPT !.pc = "threw_notfound"]
               ELSE IF r.status = "completed"
               THEN [me EXCEPT !.pc = "returned", !.phase = r.phase,
                               !.recap = r.recap]
               ELSE IF r.status = "failed"
               THEN [me EXCEPT !.pc = "threw_failed", !.phase = r.phase]
               ELSE [me EXCEPT !.phase = r.phase]]
  /\ UNCHANGED <<up, now, jobs, recaps, runs, genCalls>>
  /\ UNCHANGED others

\* the caller's promise has settled, or the page that polls is left
Forget(c) ==
  /\ callers[c].pc # "idle"
  /\ callers' = [callers EXCEPT ![c] = IdleCaller]
  /\ UNCHANGED <<up, now, jobs, recaps, runs, genCalls>>
  /\ UNCHANGED others

\* The caller of a running pollForResult raises its abort signal
\* (AbortController.abort()).  PollOptions has the fields interval, timeout
\* and onStatusChange, and pollForResult reads nothing else of its options:
\* the signal reaches nothing in the loop.
Abort(c) ==
  /\ callers[c].pc = "polling"
  /\ c \notin aborted
  /\ aborted' = aborted \cup {c}
  /\ UNCHANGED server
  /\ UNCHANGED <<parsed_boxscores, pipeline, parseCalls, keyed>>

\* ============================== DELETE /api/jobs/{jobId} (jobs/[jobId])
\* mutation of DELETE: an absent job is answered like a deleted one
DeleteOutcome_always200(jobId) ==
  [jobs |-> deleteJob(jobs, jobId),
   resp |-> [NoResponse EXCEPT !.code = 200, !.path = "delete",
                               !.jobId = jobId]]

DeleteOutcome(jobId) ==
  IF getJob(jobs, jobId) = Null
  THEN [jobs |-> jobs,
        resp |-> [NoResponse EXCEPT !.code = 404, !.path = "delete",
                                    !.jobId = jobId,
                                    !.error = "Job not found"]]
  ELSE [jobs |-> deleteJob(jobs, jobId),
        resp |-> [NoResponse EXCEPT !.code = 200, !.path = "delete",
                                    !.jobId = jobId]]

\* client deleteJob (recap-client): fetch DELETE, throw unless the response
\* is ok or a 404
clientDeleteJobThrows(jobId) ==
  LET response == DeleteOutcome(jobId).resp
  IN (~ (response.code \in 200..299)) /\ response.code # 404

Delete(jobId) ==
  /\ up
  /\ jobs' = DeleteOutcome(jobId).jobs
  /\ UNCHANGED <<up, now, recaps, runs, genCalls, callers>>
  /\ UNCHANGED others

\* =========================================== processRecapJob (+server.ts)
\* after the 100 ms delay: updateJobPhase('calling_llm'), then the
\* b.Generate*Recap call is made and awaited.  fault = updateJobPhase throws
\* and the catch runs failJob.
RunCallLLM(r, fault) ==
  /\ up
  /\ r.pc = "delay"
  /\ BagIn(r, runs)
  /\ IF fault
     THEN /\ jobs' = failJob(jobs, now, r.jobId, ErrMsg)
          /\ runs' = Resume(runs, r, "done")
          /\ genCalls' = genCalls
     ELSE /\ jobs' = updateJobPhase(jobs, now, r.jobId, "calling_llm",
                                    "Generating recap with AI...")
          /\ runs' = Resume(runs, r, "llm")
          /\ genCalls' = [genCalls EXCEPT ![r.inputHash] =
                             IF @ < MaxCalls THEN @ + 1 ELSE @]
  /\ UNCHANGED <<up, now, recaps, callers>>
  /\ UNCHANGED others

\* the generation call resolves with a recap: updateJobPhase
\* ('parsing_response'), storeRecap, completeJob.  throwAt = 0: no statement
\* throws; 1, 2, 3: that statement throws and the catch runs failJob.
RunReturn(r, recap, throwAt) ==
  /\ up
  /\ r.pc = "llm"
  /\ BagIn(r, runs)
  /\ LET id == r.jobId
         js1 == IF throwAt = 1 THEN jobs
                ELSE updateJobPhase(jobs, now, id, "parsing_response",
                                    "Processing response...")
         rc1 == IF throwAt \in {1, 2} THEN recaps
                ELSE storeRecap(recaps, r.inputHash, recap,
                                "claude-sonnet-4")
     IN /\ recaps' = rc1
        /\ jobs' = IF throwAt = 0 THEN completeJob(js1, now, id, recap)
                   ELSE failJob(js1, now, id, ErrMsg)
        /\ runs' = Resume(runs, r, "done")
  /\ UNCHANGED <<up, now, genCalls, callers>>
  /\ UNCHANGED others

\* the generation call rejects: the catch runs failJob
RunReject(r) ==
  /\ up
  /\ r.pc = "llm"
  /\ BagIn(r, runs)
  /\ jobs' = failJob(jobs, now, r.jobId, ErrMsg)
  /\ runs' = Resume(runs, r, "done")
  /\ UNCHANGED <<up, now, recaps, genCalls, callers>>
  /\ UNCHANGED others

\* ==================================================== environment
Tick ==
  /\ now < MaxTime
  /\ now' = CHOOSE t \in Times : t > now /\ \A u \in Times : u > now => t <= u
  /\ UNCHANGED <<up, jobs, recaps, runs, genCalls, callers>>
  /\ UNCHANGED others

\* the process dies: every running processRecapJob is lost, the tables stay
Crash ==
  /\ up
  /\ up' = FALSE
  /\ runs' = EmptyBag
  /\ UNCHANGED <<now, jobs, recaps, genCalls, callers>>
  /\ UNCHANGED others

\* module load of +server.ts: resetStaleJobs(5); cleanupOldJobs(60)
ServerStart ==
  /\ ~ up
  /\ up' = TRUE
  /\ jobs' = cleanupOldJobs(resetStaleJobs(jobs, now, STALE_MINUTES),
                            now, TTL_MINUTES)
  /\ UNCHANGED <<now, recaps, runs, genCalls, callers>>
  /\ UNCHANGED others

\* which statement of the last segment throws (0: none)
Faults == {0, 1, 2, 3}

\* The server with any clients: POST and DELETE requests in any order, the
\* orchestrators, the clock and the process.
Next ==
  \/ \E body \in Bodies, fault \in BOOLEAN : Post(body, fault)
  \/ \E id \in JobIds : Delete(id)
  \/ \E r \in RunsAt("delay"), fault \in BOOLEAN : RunCallLLM(r, fault)
  \/ \E r \in RunsAt("llm") : RunReject(r)
  \/ \E r \in RunsAt("llm"), recap \in Recaps, throwAt \in Faults : RunReturn(r, recap, throwAt)
  \/ Tick
  \/ Crash
  \/ ServerStart

Spec == Init /\ [][Next]_vars

\* ------------------------------------------------------------------------
\* Clients of one input: every caller runs generateRecap on the same box
\* score, polls, and starts over when its promise has settled or the user
\* leaves.  The store does not throw; the server stays up.
TheBox == <<1, 2>>
TheBody == [present |-> TRUE, boxScore |-> TheBox]
TheHash == hashContent(JsonStringify(TheBox))
TheJobId == generateJobId(TheHash)

OrchestratorStep ==
  \/ RunCallLLM(Run(TheBox, "delay"), FALSE)
  \/ RunReject(Run(TheBox, "llm"))
  \/ \E recap \in Recaps : RunReturn(Run(TheBox, "llm"), recap, 0)

NextClients ==
  \/ \E c \in Callers : Submit(c, TheBody, FALSE)
  \/ \E c \in Callers : Poll(c)
  \/ \E c \in Callers : Forget(c)
  \/ OrchestratorStep
  \/ Tick

SpecClients == Init /\ [][NextClients]_vars

\* ------------------------------------------------------------------------
\* A burst: NumCallers requests with the identical box score are in flight
\* together, each caller submits once, and the clock stays inside the
\* liveness window while they are served.
TickInWindow ==
  /\ Tick
  /\ now' <= JOB_TIMEOUT_MS

NextBurst ==
  \/ \E c \in Callers : Submit(c, TheBody, FALSE)
  \/ \E c \in Callers : Poll(c)
  \/ OrchestratorStep
  \/ TickInWindow

SpecBurst == Init /\ [][NextBurst]_vars

\* ------------------------------------------------------------------------
\* Crash and restart of the server with one input.  The orchestrator steps,
\* the restart and the clock are what the deployment keeps going; requests
\* come only if a client sends them.  The process dies finitely often: not
\* any more once the clock has reached its last instant.
CrashInTime ==
  /\ Crash
  /\ now < MaxTime

NextRecover ==
  \/ Post(TheBody, FALSE)
  \/ OrchestratorStep
  \/ Tick
  \/ CrashInTime
  \/ ServerStart

SpecRecover ==
  /\ Init
  /\ [][NextRecover]_vars
  /\ WF_vars(OrchestratorStep)
  /\ WF_vars(ServerStart)
  /\ WF_vars(Tick)

\* ------------------------------------------------------------------------
\* The cached pipeline: overlapping parseBoxScoreCached invocations, with and
\* without forceRefresh.
NextPipeline ==
  \/ \E k \in PipelineCalls, rawText \in RawTexts, forceRefresh \in BOOLEAN :
       ParseBoxScoreCached(k, rawText, forceRefresh)
  \/ \E k \in PipelineCalls, result \in BoxScoreResults : ParseResolve(k, result)
  \/ \E k \in PipelineCalls : ParseReject(k)
  \/ \E k \in PipelineCalls : ParseSettled(k)

SpecPipeline == Init /\ [][NextPipeline]_vars

\* the same with forceRefresh unset in every invocation
NextMemo ==
  \/ \E k \in PipelineCalls, rawText \in RawTexts :
       ParseBoxScoreCached(k, rawText, FALSE)
  \/ \E k \in PipelineCalls, result \in BoxScoreResults : ParseResolve(k, result)
  \/ \E k \in PipelineCalls : ParseReject(k)
  \/ \E k \in PipelineCalls : ParseSettled(k)

SpecMemo == Init /\ [][NextMemo]_vars

\* ------------------------------------------------------------------------
\* The fingerprints of any two request bodies.
NextKeying == Fingerprint

SpecKeying == InitKeying /\ [][NextKeying]_vars

\* ------------------------------------------------------------------------
\* Polling clients of one input.  Each caller runs generateRecap once, while
\* the clock has instants left beyond its timeout.  Every status fetch
\* returns (the server stays up), the loop of a running pollForResult goes
\* on and the clock goes on; whether the orchestrator ever moves is left
\* open.
SubmitInTime(c) ==
  /\ now < MaxTime
  /\ Submit(c, TheBody, FALSE)

NextPolling ==
  \/ \E c \in Callers : SubmitInTime(c)
  \/ \E c \in Callers : Poll(c)
  \/ OrchestratorStep
  \/ Tick

SpecPolling ==
  /\ Init
  /\ [][NextPolling]_vars
  /\ \A c \in Callers : WF_vars(Poll(c))
  /\ WF_vars(Tick)

\* ------------------------------------------------------------------------
\* Polling clients that may raise an abort signal while they poll.
NextAbort ==
  \/ \E c \in Callers : Submit(c, TheBody, FALSE)
  \/ \E c \in Callers : Poll(c)
  \/ \E c \in Callers : Abort(c)
  \/ OrchestratorStep
  \/ Tick

SpecAbort == Init /\ [][NextAbort]_vars

\* ========================================================================
\*                              properties
\* ========================================================================
HashOf(boxScore) == hashContent(JsonStringify(boxScore))
IdOf(boxScore) == generateJobId(HashOf(boxScore))
BodyOf(boxScore) == [present |-> TRUE, boxScore |-> boxScore]

Active(row) == row.status \in {"pending", "processing"}
Terminal(row) == row.status \in {"completed", "failed"}

\* number of processRecapJob invocations of an input that await the
\* generation call
InFlight(boxScore) == CopiesIn(Run(boxScore, "llm"), runs)

\* position of a phase in queued, validating, calling_llm,
\* parsing_response, then complete or error
Rank(phase) ==
  CASE phase = "queued" -> 0
    [] phase = "validating" -> 1
    [] phase = "calling_llm" -> 2
    [] phase = "parsing_response" -> 3
    [] OTHER -> 4

\* ------------------------------------------------------------------------
\* C1.  N concurrent POST /api/recap with the identical boxScore, starting
\* from no cache entry and no job row: under every interleaving of the
\* handlers with processRecapJob the generation call is made exactly once:
\* never a second time, and once when the work has run to its end.
C1_ExactlyOneGenerationCall ==
  /\ genCalls[TheHash] <= 1
  /\ ((\E c \in Callers : callers[c].pc # "idle") /\ runs = EmptyBag
        => genCalls[TheHash] = 1)

\* every caller has submitted while the generation is in flight
C1_Witness ==
  /\ \A c \in Callers : callers[c].pc = "polling"
  /\ InFlight(TheBox) = 1
  /\ genCalls[TheHash] = 1

\* ------------------------------------------------------------------------
\* C2.  In every reachable state at most one processRecapJob generation is
\* in flight for a given input fingerprint.
C2_AtMostOneInFlight ==
  \A b \in BoxScores : InFlight(b) <= 1

\* ------------------------------------------------------------------------
\* C3.  Once a job row is completed or failed, no step that keeps the row
\* changes its status.
C3_TerminalImmutable ==
  [][\A id \in DOMAIN jobs :
       (Terminal(jobs[id]) /\ id \in DOMAIN jobs')
         => jobs'[id].status = jobs[id].status]_vars

\* ------------------------------------------------------------------------
\* C4.  When a job has been reaped to Failed by resetStaleJobs and no recap
\* is cached, the next POST for the same input creates a fresh pending job
\* and dispatches generation for it.
C4_ReapedJobResubmitStartsFresh ==
  \A b \in BoxScores :
    ( /\ up
      /\ IdOf(b) \in DOMAIN jobs
      /\ jobs[IdOf(b)].status = "failed"
      /\ jobs[IdOf(b)].error = "Job was interrupted"
      /\ HashOf(b) \notin DOMAIN recaps )
    => LET o == PostOutcome(BodyOf(b), FALSE)
       IN /\ o.dispatched
          /\ o.resp.status = "pending"
          /\ o.resp.phase = "queued"
          /\ Active(o.jobs[IdOf(b)])

\* ------------------------------------------------------------------------
\* C5.  A POST submitted while a job for the same input is pending or
\* processing and not stale returns that job's id with its current status
\* and phase, and does not dispatch processRecapJob.
C5_DedupReturnsRunningJob ==
  \A b \in BoxScores :
    ( /\ IdOf(b) \in DOMAIN jobs
      /\ Active(jobs[IdOf(b)])
      /\ ~ isJobStale(jobs[IdOf(b)], now) )
    => LET o == PostOutcome(BodyOf(b), FALSE)
       IN /\ o.resp.jobId = IdOf(b)
          /\ o.resp.status = jobs[IdOf(b)].status
          /\ o.resp.phase = jobs[IdOf(b)].phase
          /\ ~ o.dispatched
          /\ o.runs = runs

\* ------------------------------------------------------------------------
\* C6.  When the recaps table holds an entry for the input's hash, the POST
\* answers completed with exactly the stored recap and leaves the ledger as
\* it is: no row created, changed or deleted, no processRecapJob called.
C6_CacheHitLeavesLedger ==
  \A b \in BoxScores, fault \in BOOLEAN :
    HashOf(b) \in DOMAIN recaps
    => LET o == PostOutcome(BodyOf(b), fault)
       IN /\ o.resp.code = 200
          /\ o.resp.jobId = IdOf(b)
          /\ o.resp.status = "completed"
          /\ o.resp.recap = recaps[HashOf(b)].recap_json[2]
          /\ o.jobs = jobs
          /\ o.runs = runs
          /\ ~ o.dispatched

\* a recap is cached for an input whose job row has been deleted, next to
\* another job that is running: the POST is answered from the cache
C6_Witness ==
  /\ up
  /\ \E b \in BoxScores :
       /\ HashOf(b) \in DOMAIN recaps
       /\ IdOf(b) \notin DOMAIN jobs
       /\ \E id \in DOMAIN jobs : Active(jobs[id])
       /\ PostOutcome(BodyOf(b), FALSE).resp.path = "cache"

\* ------------------------------------------------------------------------
\* C7.  All callers that submitted the identical input and poll observe the
\* same final recap: two callers whose pollForResult has seen the job
\* completed and returned hold the same recap.
Polled(c) ==
  /\ callers[c].pc = "returned"
  /\ callers[c].phase = "complete"

C7_CallersAgree ==
  \A c \in Callers, d \in Callers :
    (Polled(c) /\ Polled(d)) => callers[c].recap = callers[d].recap

\* ------------------------------------------------------------------------
\* C8.  A job that has stayed pending or processing with no update for
\* longer than the liveness window does not stay so forever: it is failed
\* or removed (a row created anew under its id is another job).
Stuck(id) ==
  /\ id \in DOMAIN jobs
  /\ Active(jobs[id])
  /\ now - jobs[id].updatedAt > JOB_TIMEOUT_MS

C8_NoJobStuckForever ==
  \A id \in JobIds : Stuck(id) ~> ~ Stuck(id)

\* ------------------------------------------------------------------------
\* C9.  processRecapJob catches the exception of any of its statements and
\* of the generation call: the row then reads failed / error with the
\* message, the POST that dispatched it answers as if nothing had thrown,
\* and an invocation that ends after the generation call has returned or
\* thrown leaves its row completed or failed.
RunFails(r) ==
  \/ RunCallLLM(r, TRUE)
  \/ RunReject(r)
  \/ \E recap \in Recaps, throwAt \in Faults \ {0} : RunReturn(r, recap, throwAt)

RunCompletes(r) ==
  \E recap \in Recaps : RunReturn(r, recap, 0)

C9_FailuresRecordedInJob ==
  /\ [](\A b \in BoxScores :
          LET thrown == PostOutcome(BodyOf(b), TRUE)
          IN thrown.dispatched
             => /\ thrown.resp = PostOutcome(BodyOf(b), FALSE).resp
                /\ thrown.resp.code = 200
                /\ thrown.jobs[IdOf(b)].status = "failed"
                /\ thrown.jobs[IdOf(b)].phase = "error"
                /\ thrown.jobs[IdOf(b)].error = ErrMsg)
  /\ [][\A r \in DOMAIN runs :
          r.jobId \in DOMAIN jobs'
          => /\ RunFails(r) => /\ jobs'[r.jobId].status = "failed"
                               /\ jobs'[r.jobId].phase = "error"
                               /\ jobs'[r.jobId].error = ErrMsg
             /\ RunCompletes(r) => jobs'[r.jobId].status = "completed"]_vars

\* the generation call has thrown, the invocation has returned and its row
\* carries the message
C9_Witness ==
  \E b \in BoxScores :
    /\ IdOf(b) \in DOMAIN jobs
    /\ jobs[IdOf(b)].status = "failed"
    /\ jobs[IdOf(b)].phase = "error"
    /\ jobs[IdOf(b)].error = ErrMsg
    /\ genCalls[HashOf(b)] = 1
    /\ ~ BagIn(Run(b, "delay"), runs)
    /\ ~ BagIn(Run(b, "llm"), runs)

\* ------------------------------------------------------------------------
\* C10.  GET /api/jobs/{jobId} returns the phase of the row, so what a
\* poller can observe of a job is the course of that row's phase: it never
\* goes back in the order queued, validating, calling_llm,
\* parsing_response, complete or error.  Steps in which a POST creates a
\* row are left out, so that a row created anew under the same id counts
\* as another job.
PostCreates ==
  \E body \in Bodies, fault \in BOOLEAN :
    Post(body, fault) /\ PostOutcome(body, fault).dispatched

C10_PhaseMonotonic ==
  [][~ PostCreates
       => \A id \in DOMAIN jobs \cap DOMAIN jobs' :
            Rank(jobs'[id].phase) >= Rank(jobs[id].phase)]_vars

\* ------------------------------------------------------------------------
\* C11.  A job row is changed only by the processRecapJob that was
\* dispatched when the row was created.  An invocation that awaits the
\* generation call has already written calling_llm to its own row, and no
\* row goes back to validating, so next to a row in phase validating an
\* invocation at the generation call belongs to an earlier, deleted row of
\* the same id: when it ends it leaves the row as it is.
EndsAfterLLM(r) ==
  \/ RunReject(r)
  \/ \E recap \in Recaps, throwAt \in Faults : RunReturn(r, recap, throwAt)

C11_OnlyOwnerWritesRow ==
  [][\A b \in BoxScores :
       ( /\ IdOf(b) \in DOMAIN jobs
         /\ jobs[IdOf(b)].phase = "validating"
         /\ IdOf(b) \in DOMAIN jobs'
         /\ EndsAfterLLM(Run(b, "llm")) )
       => jobs'[IdOf(b)] = jobs[IdOf(b)]]_vars

\* ------------------------------------------------------------------------
\* C12.  Retry is delete, then resubmit: right after DELETE
\* /api/jobs/{jobId} has deleted a failed job, a POST /api/recap with the same
\* input is answered with the same jobId in status pending / phase queued,
\* and creates the row and dispatches processRecapJob for it.
RetryStarts(b) ==
  LET o == PostOutcome(BodyOf(b), FALSE)
  IN /\ o.resp.code = 200
     /\ o.resp.jobId = IdOf(b)
     /\ o.resp.status = "pending"
     /\ o.resp.phase = "queued"
     /\ o.dispatched
     /\ IdOf(b) \in DOMAIN o.jobs
     /\ o.runs = runs (+) SetToBag({Run(b, "delay")})

C12_RetryRegenerates ==
  [][\A b \in BoxScores :
       ( /\ IdOf(b) \in DOMAIN jobs
         /\ jobs[IdOf(b)].status = "failed"
         /\ Delete(IdOf(b)) )
       => RetryStarts(b)']_vars

\* C12 as amended: ... when no recap is cached for the input; when one is
\* cached, the POST answers completed with the cached recap, creates no row
\* and dispatches nothing.  Stated of every state in which the job's row is
\* absent, which is what the DELETE leaves.
RetryFromCache(b) ==
  LET o == PostOutcome(BodyOf(b), FALSE)
  IN /\ o.resp.code = 200
     /\ o.resp.jobId = IdOf(b)
     /\ o.resp.status = "completed"
     /\ o.resp.recap = recaps[HashOf(b)].recap_json[2]
     /\ ~ o.dispatched
     /\ o.jobs = jobs
     /\ o.runs = runs

C12_RetryRegeneratesUnlessCached ==
  \A b \in BoxScores :
    /\ IdOf(b) \notin DOMAIN DeleteOutcome(IdOf(b)).jobs
    /\ IdOf(b) \notin DOMAIN jobs
        => IF HashOf(b) \in DOMAIN recaps
           THEN RetryFromCache(b) ELSE RetryStarts(b)

\* a generation has been called and has ended without a recap, its job is
\* gone, and the job created anew under the id waits in its delay
C12_Witness ==
  \E b \in BoxScores :
    /\ IdOf(b) \in DOMAIN jobs
    /\ jobs[IdOf(b)].phase = "validating"
    /\ genCalls[HashOf(b)] = 1
    /\ BagIn(Run(b, "delay"), runs)
    /\ ~ BagIn(Run(b, "llm"), runs)
    /\ HashOf(b) \notin DOMAIN recaps

\* ------------------------------------------------------------------------
\* C13.  A POST dispatches processRecapJob only when its createOrGetJob
\* inserted the row (no row of the id was there, or the one that was there
\* was stale and this request deleted it), and then once; for a row that is
\* there and not stale it dispatches nothing.
C13_DispatchOnlyOnInsert ==
  \A b \in BoxScores, fault \in BOOLEAN :
    LET o == PostOutcome(BodyOf(b), fault)
        id == IdOf(b)
    IN /\ o.dispatched
          => /\ id \in DOMAIN jobs
                => (Active(jobs[id]) /\ isJobStale(jobs[id], now))
             /\ id \in DOMAIN o.jobs
             /\ o.runs = IF fault THEN runs
                         ELSE runs (+) SetToBag({Run(b, "delay")})
       /\ ~ o.dispatched => o.runs = runs
       /\ (id \in DOMAIN jobs /\ ~ isJobStale(jobs[id], now))
          => (~ o.dispatched /\ o.jobs = jobs)

\* createOrGetJob is reached with a failed row in place and returns it: no
\* dispatch; for the other input it inserts the row: dispatch
C13_Witness ==
  /\ up
  /\ \E b \in BoxScores :
       /\ IdOf(b) \in DOMAIN jobs
       /\ jobs[IdOf(b)].status = "failed"
       /\ PostOutcome(BodyOf(b), FALSE).resp.path = "existing"
       /\ ~ PostOutcome(BodyOf(b), FALSE).dispatched
  /\ \E b \in BoxScores :
       /\ IdOf(b) \notin DOMAIN jobs
       /\ PostOutcome(BodyOf(b), FALSE).dispatched

RowsOf(inputHash) ==
  {id \in DOMAIN jobs : jobs[id].inputHash = inputHash
                        /\ jobs[id].jobType = "recap"}

C15_OneJobPerFingerprint ==
  /\ \A id \in DOMAIN jobs :
       /\ jobs[id].id = id
       /\ id = <<"recap", jobs[id].inputHash>>
       /\ jobs[id].jobType = "recap"
  /\ \A b \in BoxScores :
       /\ Cardinality(RowsOf(HashOf(b))) <= 1
       /\ Cardinality({id \in RowsOf(HashOf(b)) : Active(jobs[id])}) <= 1

\* the jobs of both inputs are running side by side, one row each
C15_Witness ==
  /\ Cardinality(DOMAIN jobs) = Cardinality(BoxScores)
  /\ \A b \in BoxScores :
       /\ Cardinality(RowsOf(HashOf(b))) = 1
       /\ \A id \in RowsOf(HashOf(b)) : Active(jobs[id])

\* ------------------------------------------------------------------------
\* C16.  A recaps row appears only in the step in which a processRecapJob
\* stores the recap its generation call returned, and once a fingerprint
\* has a row no step deletes it or changes its payload.
StoresRecap(inputHash, recap) ==
  \E b \in BoxScores, throwAt \in {0, 3} :
    /\ HashOf(b) = inputHash
    /\ RunReturn(Run(b, "llm"), recap, throwAt)

C16_RecapWrittenOnce ==
  [][/\ \A h \in DOMAIN recaps :
          /\ h \in DOMAIN recaps'
          /\ recaps'[h].recap_json = recaps[h].recap_json
     /\ \A h \in DOMAIN recaps' \ DOMAIN recaps :
          StoresRecap(h, recaps'[h].recap_json[2])]_vars

\* ------------------------------------------------------------------------
\* C17.  With forceRefresh unset in every invocation, parseBoxScoreCached
\* calls b.ParseBoxScore at most once for a raw text, however the
\* invocations overlap.
C17_OneLLMCallPerInput ==
  \A rawText \in RawTexts : parseCalls[rawText] <= 1

\* ------------------------------------------------------------------------
\* C18.  The fingerprint (hashContent of JSON.stringify of the input) is
\* equal for semantically equal inputs: two objects with the same members,
\* in whatever order the members were inserted, hash to the same value.
SameObject(a, b) ==
  {a[i] : i \in 1..Len(a)} = {b[i] : i \in 1..Len(b)}

C18_FingerprintCanonical ==
  (keyed.hashes # <<>> /\ SameObject(keyed.a, keyed.b))
    => keyed.hashes[1] = keyed.hashes[2]

\* ------------------------------------------------------------------------
\* C19.  A get returns the payload of the most recent put for the key.  When
\* parseBoxScoreCached stores a result, the entry of its input hash reads
\* back as that result, whatever the table held for the key before, no
\* other entry changes and no entry is added but that of the key; no other
\* step changes the table; a call answered from the table returns what the
\* table holds.  storeRecap/getRecap behave the same on every recaps table
\* with at most one earlier entry.
Puts(k) ==
  /\ pipeline[k].pc = "llm"
  /\ pipeline'[k].pc = "returned"

Hits(k) ==
  /\ pipeline[k].pc = "idle"
  /\ pipeline'[k].pc = "returned"

RecapTables ==
  {<<>>} \cup {storeRecap(<<>>, h, recap, null) :
                 h \in Hashes, recap \in Recaps}

C19_GetReturnsLastPut ==
  [][/\ \A k \in PipelineCalls :
          Puts(k) =>
            LET inputHash == hashContent(pipeline[k].rawText) IN
              /\ getParsedBoxScore(parsed_boxscores', inputHash)
                   = pipeline'[k].result
              /\ DOMAIN parsed_boxscores'
                   = DOMAIN parsed_boxscores \cup {inputHash}
              /\ \A h \in DOMAIN parsed_boxscores \ {inputHash} :
                   parsed_boxscores'[h] = parsed_boxscores[h]
     /\ (\A k \in PipelineCalls : ~Puts(k))
          => parsed_boxscores' = parsed_boxscores
     /\ \A k \in PipelineCalls :
          Hits(k) =>
            pipeline'[k].result
              = getParsedBoxScore(parsed_boxscores,
                                  hashContent(pipeline'[k].rawText))
     /\ \A rc \in RecapTables, h \in Hashes, recap \in Recaps :
          /\ getRecap(storeRecap(rc, h, recap, null), h) = recap
          /\ DOMAIN storeRecap(rc, h, recap, null) = DOMAIN rc \cup {h}
          /\ \A g \in DOMAIN rc \ {h} :
               storeRecap(rc, h, recap, null)[g] = rc[g]]_vars

\* a forced refresh has replaced the result another call returned for the
\* same raw text
C19_Witness ==
  \E k, j \in PipelineCalls :
    /\ pipeline[k].pc = "returned"
    /\ pipeline[j].pc = "returned"
    /\ pipeline[k].forceRefresh
    /\ pipeline[k].rawText = pipeline[j].rawText
    /\ pipeline[k].result # pipeline[j].result
    /\ getParsedBoxScore(parsed_boxscores, hashContent(pipeline[k].rawText))
         = pipeline[k].result

\* ------------------------------------------------------------------------
\* C20 as stated.  DELETE /api/jobs/{jobId} answers 200 whether the job
\* exists or is already absent, and leaves the ledger without the job.
C20_DeleteAlways200 ==
  \A jobId \in JobIds :
    /\ DeleteOutcome(jobId).resp.code = 200
    /\ jobId \notin DOMAIN DeleteOutcome(jobId).jobs

\* C20 as the code has it.  DELETE answers 200 when it deletes an existing
\* job and 404 'Job not found' when the job is absent; in both cases the
\* ledger is left without the job and with every other job as it was, and
\* the client's deleteJob does not throw.
C20_DeleteIdempotentByClient ==
  \A jobId \in JobIds :
    LET outcome == DeleteOutcome(jobId) IN
      /\ outcome.resp.code = (IF jobId \in DOMAIN jobs THEN 200 ELSE 404)
      /\ jobId \notin DOMAIN jobs => outcome.resp.error = "Job not found"
      /\ jobId \notin DOMAIN outcome.jobs
      /\ DOMAIN outcome.jobs = DOMAIN jobs \ {jobId}
      /\ \A other \in DOMAIN jobs \ {jobId} : outcome.jobs[other] = jobs[other]
      /\ ~ clientDeleteJobThrows(jobId)

\* one job is there to be deleted, and another is gone while the
\* generation dispatched for it is still running: it has been deleted
C20_Witness ==
  \E a, b \in BoxScores :
    /\ IdOf(a) \in DOMAIN jobs
    /\ DeleteOutcome(IdOf(a)).resp.code = 200
    /\ IdOf(b) \notin DOMAIN jobs
    /\ BagIn(Run(b, "delay"), runs)
    /\ DeleteOutcome(IdOf(b)).resp.code = 404

\* ------------------------------------------------------------------------
\* C21.  pollForResult terminates when every status fetch returns, and it
\* ends as what it observed tells: it returns the result only on a fetch
\* that shows the job completed, throws the job's failure only on a fetch
\* that shows it failed, throws the timeout only when more than the timeout
\* has elapsed, and polls on only while the job is pending or processing
\* within the timeout.
TimedOut(c) == now - callers[c].startTime > POLL_TIMEOUT

PollEndsAsObserved(c) ==
  LET fetched == GetOutcome(callers[c].jobId) IN
    /\ callers'[c].pc \in {"polling", "returned", "threw_failed",
                           "threw_timeout", "threw_notfound"}
    /\ callers'[c].pc = "returned" =>
         /\ ~ TimedOut(c)
         /\ fetched.code = 200
         /\ fetched.status = "completed"
         /\ callers'[c].recap = fetched.recap
    /\ callers'[c].pc = "threw_failed" =>
         /\ ~ TimedOut(c)
         /\ fetched.code = 200
         /\ fetched.status = "failed"
    /\ callers'[c].pc = "threw_timeout" => TimedOut(c)
    /\ callers'[c].pc = "threw_notfound" =>
         /\ ~ TimedOut(c)
         /\ fetched.code = 404
    /\ (callers'[c].pc = "polling" /\ callers'[c] # callers[c]) =>
         /\ ~ TimedOut(c)
         /\ fetched.code = 200
         /\ fetched.status \in {"pending", "processing"}

C21_PollTerminates ==
  /\ [][\A c \in Callers :
          callers[c].pc = "polling" => PollEndsAsObserved(c)]_vars
  /\ \A c \in Callers :
       (callers[c].pc = "polling") ~> (callers[c].pc # "polling")

\* one pollForResult has returned the recap of the completed job and
\* another has given up on its timeout
C21_Witness ==
  \E c, d \in Callers :
    /\ Polled(c)
    /\ callers[c].recap \in Recaps
    /\ callers[d].pc = "threw_timeout"

\* ------------------------------------------------------------------------
\* C22.  The step in which pollForResult gives up on its timeout changes no
\* job row, no cache entry and no running processRecapJob; and when, with a
\* caller timed out, processRecapJob gets its recap and succeeds, the recap
\* is in the cache and a POST of the same input is answered from it.
GivesUp(c) ==
  /\ callers[c].pc = "polling"
  /\ callers'[c].pc = "threw_timeout"

C22_TimeoutLeavesJobRunning ==
  [][/\ \A c \in Callers :
          GivesUp(c) => /\ jobs' = jobs
                        /\ recaps' = recaps
                        /\ runs' = runs
                        /\ genCalls' = genCalls
     /\ \A recap \in Recaps :
          (/\ \E c \in Callers : callers[c].pc = "threw_timeout"
           /\ RunReturn(Run(TheBox, "llm"), recap, 0))
          => /\ getRecap(recaps', TheHash) = recap
             /\ (PostOutcome(TheBody, FALSE).resp.path = "cache")'
             /\ (PostOutcome(TheBody, FALSE).resp.recap = recap)']_vars

\* a caller has given up, and the job was completed and its recap cached
\* after the caller's timeout had passed
C22_Witness ==
  \E c \in Callers :
    /\ callers[c].pc = "threw_timeout"
    /\ callers[c].jobId = TheJobId
    /\ TheJobId \in DOMAIN jobs
    /\ jobs[TheJobId].status = "completed"
    /\ jobs[TheJobId].updatedAt - callers[c].startTime > POLL_TIMEOUT
    /\ getRecap(recaps, TheHash) = jobs[TheJobId].result
    /\ PostOutcome(TheBody, FALSE).resp.path = "cache"

\* ------------------------------------------------------------------------
\* C23.  Once a caller has raised its abort signal, its pollForResult makes
\* no further status request: it does not go on to take in a fetched status,
\* as a new phase, a result, a failure or a missing job.
C23_AbortStopsPolling ==
  [][\A c \in Callers :
       (c \in aborted /\ callers[c].pc = "polling")
         => \/ callers'[c] = callers[c]
            \/ callers'[c].pc \notin {"polling", "returned", "threw_failed",
                                      "threw_notfound"}]_vars

\* ------------------------------------------------------------------------
\* The maintenance functions resetStaleJobs and cleanupOldJobs on any jobs
\* table the database file can hold when they run.  A row is as one of the
\* statements of cache.ts writes it: inserted (pending / queued; a process
\* killed after createOrGetJob's INSERT and before processRecapJob's first
\* UPDATE leaves it so), updated to a phase, completed with a result, or
\* failed with an error.  The windows are counted in minutes of the clock.
Windows == {1, JOB_TIMEOUT_MS, STALE_MINUTES}

WrittenRows(jobId) ==
  LET inserted(t) == insertJob(<<>>, t, jobId, jobId[2], "recap").jobs
  IN    {inserted(t)[jobId] : t \in Times}
   \cup {updateJobPhase(inserted(t), t, jobId, phase, "Working...")[jobId] :
           t \in Times,
           phase \in {"validating", "calling_llm", "parsing_response"}}
   \cup {completeJob(inserted(t), t, jobId, recap)[jobId] :
           t \in Times, recap \in Recaps}
   \cup {failJob(inserted(t), t, jobId, ErrMsg)[jobId] : t \in Times}

JobTables ==
  UNION {{js \in [ids -> UNION {WrittenRows(id) : id \in ids}] :
            \A id \in ids : js[id].id = id} : ids \in SUBSET JobIds}

InitReaper ==
  /\ up = TRUE
  /\ now \in Times
  /\ jobs \in JobTables
  /\ recaps \in RecapTables
  /\ runs = EmptyBag
  /\ genCalls = [h \in Hashes |-> 0]
  /\ callers = [c \in Callers |-> IdleCaller]
  /\ aborted = {}
  /\ InitPipeline
  /\ keyed = NotKeyed

ResetStale(staleMinutes) ==
  /\ jobs' = resetStaleJobs(jobs, now, staleMinutes)
  /\ UNCHANGED <<up, now, recaps, runs, genCalls, callers>>
  /\ UNCHANGED others

CleanupOld(ttlMinutes) ==
  /\ jobs' = cleanupOldJobs(jobs, now, ttlMinutes)
  /\ UNCHANGED <<up, now, recaps, runs, genCalls, callers>>
  /\ UNCHANGED others

NextReaper ==
  \/ \E staleMinutes \in Windows : ResetStale(staleMinutes)
  \/ \E ttlMinutes \in Windows : CleanupOld(ttlMinutes)

SpecReaper == InitReaper /\ [][NextReaper]_vars

\* ------------------------------------------------------------------------
\* C24.  resetStaleJobs(w) turns every pending or processing job whose
\* updatedAt is older than w into failed / error with the interruption
\* error, and leaves every other job as it is.
C24_ResetStaleFailsActiveJobs ==
  \A w \in Windows :
    LET out == resetStaleJobs(jobs, now, w) IN
      /\ DOMAIN out = DOMAIN jobs
      /\ \A id \in DOMAIN jobs :
           IF Active(jobs[id]) /\ jobs[id].updatedAt < now - w
           THEN /\ out[id].status = "failed"
                /\ out[id].phase = "error"
                /\ out[id].error = "Job was interrupted"
           ELSE out[id] = jobs[id]

\* ------------------------------------------------------------------------
\* C25.  cleanupOldJobs(ttl) deletes exactly the completed or failed jobs
\* whose updatedAt is older than ttl: the rows it leaves are the pending and
\* processing jobs and the terminal jobs not older than ttl, each unchanged;
\* and a step in which it deletes leaves the recaps and parsed box scores as
\* they are.
Expired(row, t, ttl) == Terminal(row) /\ row.updatedAt < t - ttl

C25_CleanupDeletesOldTerminalJobs ==
  [][\A ttl \in Windows :
       LET out == cleanupOldJobs(jobs, now, ttl) IN
         /\ DOMAIN out = {id \in DOMAIN jobs : ~ Expired(jobs[id], now, ttl)}
         /\ \A id \in DOMAIN out : out[id] = jobs[id]
         /\ jobs' = out => /\ recaps' = recaps
                           /\ parsed_boxscores' = parsed_boxscores]_vars

\* a table with an old terminal job that a clean-up deletes and an old
\* active job that it keeps, next to a cached recap
C25_Witness ==
  \E ttl \in Windows, a, b \in JobIds :
    /\ a \in DOMAIN jobs
    /\ b \in DOMAIN jobs
    /\ Terminal(jobs[a])
    /\ Active(jobs[b])
    /\ jobs[a].updatedAt < now - ttl
    /\ jobs[b].updatedAt < now - ttl
    /\ DOMAIN cleanupOldJobs(jobs, now, ttl) = {b}
    /\ recaps # <<>>

\* ------------------------------------------------------------------------
\* C26.  A POST that gets as far as looking for the job of its input (no
\* recap is cached) and finds it pending or processing with an updatedAt
\* more than JOB_TIMEOUT_MS old deletes it, inserts a fresh job under the
\* same id, answers pending / queued and dispatches processRecapJob once.
\* In every other case the row of the input stays as it is and nothing is
\* dispatched for it; the rows of other inputs always stay as they are.
StaleFound(b) ==
  /\ HashOf(b) \notin DOMAIN recaps
  /\ IdOf(b) \in DOMAIN jobs
  /\ Active(jobs[IdOf(b)])
  /\ now - jobs[IdOf(b)].updatedAt > JOB_TIMEOUT_MS

C26_PostReplacesOnlyStaleJob ==
  \A b \in BoxScores, fault \in BOOLEAN :
    LET o == PostOutcome(BodyOf(b), fault)
        id == IdOf(b)
    IN /\ \A other \in DOMAIN jobs \ {id} :
            /\ other \in DOMAIN o.jobs
            /\ o.jobs[other] = jobs[other]
       /\ StaleFound(b) =>
            /\ o.dispatched
            /\ o.resp.code = 200
            /\ o.resp.jobId = id
            /\ o.resp.status = "pending"
            /\ o.resp.phase = "queued"
            /\ id \in DOMAIN o.jobs
            /\ o.jobs[id].updatedAt = now
            /\ o.jobs[id].result = null
            /\ o.jobs[id].status = (IF fault THEN "failed" ELSE "processing")
            /\ BagCardinality(o.runs)
                 = BagCardinality(runs) + (IF fault THEN 0 ELSE 1)
            /\ ~ fault => CopiesIn(Run(b, "delay"), o.runs)
                            = CopiesIn(Run(b, "delay"), runs) + 1
       /\ (id \in DOMAIN jobs /\ ~ StaleFound(b)) =>
            /\ ~ o.dispatched
            /\ id \in DOMAIN o.jobs
            /\ o.jobs[id] = jobs[id]
            /\ o.runs = runs

\* the processing job of an input has gone stale while its generation call
\* is still awaited, and a POST of the input replaces it
C26_Witness ==
  \E b \in BoxScores :
    /\ StaleFound(b)
    /\ jobs[IdOf(b)].phase = "calling_llm"
    /\ InFlight(b) = 1
    /\ PostOutcome(BodyOf(b), FALSE).dispatched
    /\ PostOutcome(BodyOf(b), FALSE).jobs[IdOf(b)].phase = "validating"

\* ------------------------------------------------------------------------
\* C27.  updateJobPhase writes the status that belongs to the phase (queued:
\* pending, complete: completed, error: failed, any other: processing), and
\* in every reachable state every row, and every job a POST answers with,
\* has the status that belongs to its phase.
Phases ==
  {"queued", "validating", "calling_llm", "parsing_response", "complete",
   "error"}

Consistent(status, phase) ==
  /\ phase \in Phases
  /\ status = "pending" <=> phase = "queued"
  /\ status = "completed" <=> phase = "complete"
  /\ status = "failed" <=> phase = "error"
  /\ status = "processing"
       <=> phase \in {"validating", "calling_llm", "parsing_response"}

C27_StatusMatchesPhase ==
  /\ \A id \in DOMAIN jobs :
       /\ Consistent(jobs[id].status, jobs[id].phase)
       /\ \A phase \in Phases :
            LET row == updateJobPhase(jobs, now, id, phase, "message")[id]
            IN /\ row.phase = phase
               /\ Consistent(row.status, phase)
       /\ \A w \in Windows :
            Consistent(resetStaleJobs(jobs, now, w)[id].status,
                       resetStaleJobs(jobs, now, w)[id].phase)
  /\ \A b \in BoxScores, fault \in BOOLEAN :
       LET o == PostOutcome(BodyOf(b), fault)
       IN /\ o.resp.code = 200 => Consistent(o.resp.status, o.resp.phase)
          /\ \A id \in DOMAIN o.jobs :
               Consistent(o.jobs[id].status, o.jobs[id].phase)

\* a job failed by resetStaleJobs after a restart, next to a job whose
\* generation call is awaited
C27_Witness ==
  \E a, b \in JobIds :
    /\ a \in DOMAIN jobs
    /\ b \in DOMAIN jobs
    /\ jobs[a].status = "failed"
    /\ jobs[a].error = "Job was interrupted"
    /\ jobs[b].status = "processing"
    /\ jobs[b].phase = "calling_llm"

\* ------------------------------------------------------------------------
\* C28.  In every reachable state a job whose status is completed has a
\* recaps entry for its input hash, and the entry's recap is the job's
\* stored result.
C28_CompletedJobIsCached ==
  \A id \in DOMAIN jobs :
    jobs[id].status = "completed"
      => /\ jobs[id].inputHash \in DOMAIN recaps
         /\ getRecap(recaps, jobs[id].inputHash) = jobs[id].result
         /\ jobs[id].result \in Recaps

\* a job completed by the second of two generation calls made for its input
C28_Witness ==
  \E b \in BoxScores :
    /\ IdOf(b) \in DOMAIN jobs
    /\ jobs[IdOf(b)].status = "completed"
    /\ genCalls[HashOf(b)] = 2
    /\ InFlight(b) = 0
    /\ getRecap(recaps, HashOf(b)) = jobs[IdOf(b)].result

\* ------------------------------------------------------------------------
\* C29.  In every reachable state a row has a result only if its status is
\* completed and an error only if its status is failed, and so has the
\* answer of GET /api/jobs/{jobId}.
C29_ResultAndErrorMatchStatus ==
  \A id \in JobIds :
    /\ id \in DOMAIN jobs =>
         /\ jobs[id].result # null => jobs[id].status = "completed"
         /\ jobs[id].error # null => jobs[id].status = "failed"
    /\ GetOutcome(id).code = 200 =>
         /\ GetOutcome(id).recap # null => GetOutcome(id).status = "completed"
         /\ GetOutcome(id).error # null => GetOutcome(id).status = "failed"

\* ------------------------------------------------------------------------
\* The server whose process never dies: requests, orchestrators and the
\* clock.
NextNoCrash ==
  \/ \E body \in Bodies, fault \in BOOLEAN : Post(body, fault)
  \/ \E id \in JobIds : Delete(id)
  \/ \E r \in RunsAt("delay"), fault \in BOOLEAN : RunCallLLM(r, fault)
  \/ \E r \in RunsAt("llm") : RunReject(r)
  \/ \E r \in RunsAt("llm"), recap \in Recaps, throwAt \in Faults : RunReturn(r, recap, throwAt)
  \/ Tick

SpecNoCrash == Init /\ [][NextNoCrash]_vars

\* ------------------------------------------------------------------------
\* C30.  While the process has not crashed, whenever no processRecapJob is
\* running for an id, the row with that id is absent or completed or failed.
Running(b) ==
  CopiesIn(Run(b, "delay"), runs) + CopiesIn(Run(b, "llm"), runs)

C30_ActiveOnlyWhileRunning ==
  \A b \in BoxScores :
    (Running(b) = 0 /\ IdOf(b) \in DOMAIN jobs) => Terminal(jobs[IdOf(b)])

\* two generation calls were made for an input, both invocations have
\* ended, and the row they wrote is terminal
C30_Witness ==
  \E b \in BoxScores :
    /\ Running(b) = 0
    /\ genCalls[HashOf(b)] = 2
    /\ IdOf(b) \in DOMAIN jobs
    /\ Terminal(jobs[IdOf(b)])

====
